---------------------------- MODULE Spec2Model ----------------------------
(***************************************************************************)
(* Model of the revision applier (src/src/applier.py), of the text state   *)
(* extractor (src/src/extractor.py) and of the revision mapper             *)
(* (src/src/mapper.py) of the bilingual sync engine.                       *)
(*                                                                         *)
(* A text is a sequence of one-character strings.  The document is a tree  *)
(* of nodes [tag, id, author, preserve, text, kids]; a missing w:id is     *)
(* NoId.  Spec is the applier on a document and SpecAuthor the same with  *)
(* any author; SpecDiff and SpecMarkup are the text functions on every     *)
(* pair of short texts; SpecExtract is the extractor on the cells built    *)
(* span by span; SpecEscape is _build_diff_xml on one op of any text and   *)
(* SpecBuild on every short op list; SpecDemo is the text functions on the *)
(* sentences of the demonstration; SpecMap is map_row_pairs with either    *)
(* strategy against every LLM response, SpecMapProgress its max_tokens     *)
(* strategy against an LLM that brings a new result in every call.         *)
(***************************************************************************)
EXTENDS Integers, Sequences, FiniteSets, TLC

VARIABLES
    JIEBA_AVAILABLE,    \* applier.py:22-28, set once when the module is imported
    jieba_cuts,         \* the positions at which the segmenter cuts a text
    current_text,       \* SpecDiff: the first argument of word_diff
    target_after,       \* SpecDiff: the second argument of word_diff
    token_lists,        \* SpecDiff: the token lists of the two texts
    operations,         \* SpecDiff: the op list word_diff returned
    states,             \* SpecDiff: text states extracted from the built cell
    phase,              \* the step a specification of text functions is at
    plain_text,         \* what _extract_all_text_from_cell returned
    escaped             \* what _escape_xml returned

VARIABLES
    applier_author,     \* the author argument of RevisionApplier.__init__
    doc,                \* self.doc["word/document.xml"]: the document tree
    next_revision_id,   \* self.next_revision_id
    w16du_declared,     \* document.xml's root declares the prefix w16du
    loaded_ids,         \* history: the w:id values of document.xml at __init__
    issued,             \* history: every id _build_diff_xml wrote, in order
    calls,              \* history: entries handled and direct calls so far
    last,               \* history: the last apply_diff_to_row call
    pc,                 \* "idle", or "pass" inside apply_mapped_revisions
    mapped_results,     \* apply_mapped_revisions: its argument
    pass_column,        \* apply_mapped_revisions: its argument column_index
    handled,            \* apply_mapped_revisions: entries handled so far
    success_count,      \* apply_mapped_revisions: its counter
    attempts,           \* history: the calls of this pass, (row_index, success)
    returned,           \* history: what the last finished pass returned
    prev_pass,          \* history: the arguments of the last finished pass
    pass_start          \* history: the tree when this pass began

VARIABLES
    strategy,           \* RevisionMapper: self.strategy
    max_retries,        \* RevisionMapper: self.max_retries
    row_pairs,          \* map_row_pairs: its argument
    pending_rows,       \* the rows still without a result
    results_by_row,     \* the results collected, by row_index
    batch_output_limit, \* batch strategy: the output budget of a batch
    attempt,            \* the turns of the retry loop begun so far
    batches,            \* batch strategy: the batches of this attempt not yet sent
    failed_rows,        \* batch strategy: the rows that failed in this attempt
    map_pc,             \* "idle", "attempt" (top of the loop), "batch", "done"
    output,             \* what map_row_pairs returned
    dropped,            \* history: the object the last call popped, if any
    sends,              \* history: the number of calls each row was sent in
    done_before         \* history: the rows with a result when the attempt began

diffvars == <<current_text, target_after, token_lists, operations, states,
              phase, plain_text, escaped>>

appvars == <<applier_author, doc, w16du_declared, next_revision_id, loaded_ids, issued, calls, last, pc,
             mapped_results, pass_column, handled, success_count, attempts,
             returned, prev_pass, pass_start>>

mapvars == <<strategy, max_retries, row_pairs, pending_rows, results_by_row,
             batch_output_limit, attempt, batches, failed_rows, map_pc,
             output, dropped, sends, done_before>>

vars == <<JIEBA_AVAILABLE, jieba_cuts, diffvars, appvars, mapvars>>

\* No map_row_pairs call was made.
MapperIdle ==
    /\ strategy = "max_tokens"
    /\ max_retries = 2
    /\ row_pairs = <<>>
    /\ pending_rows = <<>>
    /\ results_by_row = <<>>
    /\ batch_output_limit = 0
    /\ attempt = 0
    /\ batches = <<>>
    /\ failed_rows = <<>>
    /\ map_pc = "idle"
    /\ output = <<>>
    /\ dropped = <<>>
    /\ sends = <<>>
    /\ done_before = {}

-----------------------------------------------------------------------------
(* Bounds *)

\* Longest text, in characters, drawn as an input of the text functions.
MaxLen == 3

\* Characters of the input texts: a word character that is also an XML
\* metacharacter, a space, and a CJK ideograph ("U4E2D" stands for the one
\* character U+4E2D).
Chars == {"&", " ", "U4E2D"}

\* The same with a line end that is not "\n".
MarkupChars == Chars \cup {"\r"}

-----------------------------------------------------------------------------
(* Sequences of characters *)

RECURSIVE Concat(_)
\* ''.join(parts)
Concat(parts) ==
    IF parts = <<>> THEN <<>> ELSE Head(parts) \o Concat(Tail(parts))

RECURSIVE SelectSeqOf(_, _)
\* the members of s that are in the set S, in order
SelectSeqOf(s, S) ==
    IF s = <<>> THEN <<>>
    ELSE IF Head(s) \in S THEN <<Head(s)>> \o SelectSeqOf(Tail(s), S)
         ELSE SelectSeqOf(Tail(s), S)

\* s[i:j] of Python, 0-based, j exclusive
Slice(s, i, j) == IF j <= i THEN <<>> ELSE SubSeq(s, i + 1, j)

TextsOver(S, n) == UNION {[1..k -> S] : k \in 0..n}

TextsUpTo(n) == TextsOver(Chars, n)

Range(s) == {s[i] : i \in 1..Len(s)}

-----------------------------------------------------------------------------
(* applier.py: detect_language, tokenize *)

\* the class [U+4E00-U+9FFF] of the regular expression
CJK == {"U4E2D"}

\* \s of the regular expression, among the characters of the model
Whitespace == {" ", "\n", "\r"}

\* len(re.findall(r'[U+4E00-U+9FFF]', text))
chinese_chars(text) == Len(SelectSeqOf(text, CJK))

\* len(text.replace(' ', ''))
total_chars(text) == Len(text) - Len(SelectSeqOf(text, {" "}))

\* chinese_chars / total_chars > 0.3, in tenths
detect_language(text) ==
    IF total_chars(text) = 0 THEN "en"
    ELSE IF 10 * chinese_chars(text) > 3 * total_chars(text) THEN "zh"
    ELSE "en"

RECURSIVE re_split(_, _)
\* re.split(r'(\s+)', text): the maximal runs of whitespace and of
\* non-whitespace, alternating, with an empty string wherever the text
\* starts or ends with whitespace.  acc is the run being read.
re_split(text, acc) ==
    IF text = <<>> THEN <<acc>>
    ELSE LET c == Head(text) IN
         IF acc = <<>> \/ ((acc[1] \in Whitespace) = (c \in Whitespace))
         THEN re_split(Tail(text), Append(acc, c))
         ELSE <<acc>> \o re_split(Tail(text), <<c>>)

\* The leading empty string that re.split yields before a separator at
\* position 0 (and after one at the end).
re_split_all(text) ==
    LET runs == re_split(text, <<>>)
        lead == IF text # <<>> /\ text[1] \in Whitespace THEN <<<<>>>> ELSE <<>>
        trail == IF text # <<>> /\ text[Len(text)] \in Whitespace
                 THEN <<<<>>>> ELSE <<>>
    IN lead \o runs \o trail

RECURSIVE jieba_cut(_, _, _)
\* jieba.cut(text): the segmenter of the jieba package, which is not part of
\* the repository.  It is taken to cut the text into consecutive pieces; the
\* cut points are those of jieba_cuts.  pos is the 0-based position of
\* Head(text), acc the piece being read.
jieba_cut(text, pos, acc) ==
    IF text = <<>> THEN <<acc>>
    ELSE IF pos \in jieba_cuts /\ acc # <<>>
         THEN <<acc>> \o jieba_cut(Tail(text), pos + 1, <<Head(text)>>)
         ELSE jieba_cut(Tail(text), pos + 1, Append(acc, Head(text)))

\* [t for t in tokens if t]
NonEmpty(tokens) == SelectSeq(tokens, LAMBDA t : t # <<>>)

\* list(text)
CharTokens(text) == [i \in 1..Len(text) |-> <<text[i]>>]

\* Faulty variant of tokenize: the delimiter mode splits on r'\s+' without the
\* capturing group, so the whitespace runs are not kept.
tokenize_drop_separators(text) ==
    IF detect_language(text) = "zh"
    THEN IF JIEBA_AVAILABLE
         THEN NonEmpty(jieba_cut(text, 0, <<>>))
         ELSE CharTokens(text)
    ELSE SelectSeq(re_split_all(text),
                   LAMBDA t : t # <<>> /\ t[1] \notin Whitespace)

tokenize(text) ==
    IF detect_language(text) = "zh"
    THEN IF JIEBA_AVAILABLE
         THEN NonEmpty(jieba_cut(text, 0, <<>>))
         ELSE CharTokens(text)
    ELSE NonEmpty(re_split_all(text))

-----------------------------------------------------------------------------
(* difflib.SequenceMatcher(None, a, b), as word_diff uses it.  Positions are *)
(* 0-based as in Python; the junk heuristic only acts on sequences of 200   *)
(* tokens or more and is left out.                                          *)

RECURSIVE MatchLen(_, _, _, _, _, _)
\* length of the longest common run of a[i:ahi] and b[j:bhi] starting at i, j
MatchLen(a, b, i, ahi, j, bhi) ==
    IF i < ahi /\ j < bhi /\ a[i + 1] = b[j + 1]
    THEN 1 + MatchLen(a, b, i + 1, ahi, j + 1, bhi)
    ELSE 0

\* find_longest_match(alo, ahi, blo, bhi): the longest matching block, the
\* one starting earliest in a among the longest, and of those the one
\* starting earliest in b; <<alo, blo, 0>> when nothing matches.
find_longest_match(a, b, alo, ahi, blo, bhi) ==
    LET cand == {<<i, j, MatchLen(a, b, i, ahi, j, bhi)>> :
                    i \in alo..(ahi - 1), j \in blo..(bhi - 1)}
        good == {x \in cand : x[3] > 0}
    IN IF good = {} THEN <<alo, blo, 0>>
       ELSE CHOOSE x \in good :
              \A y \in good :
                 \/ x[3] > y[3]
                 \/ x[3] = y[3] /\ x[1] < y[1]
                 \/ x[3] = y[3] /\ x[1] = y[1] /\ x[2] <= y[2]

RECURSIVE matching_blocks(_, _, _, _, _, _)
\* the blocks get_matching_blocks collects, sorted
matching_blocks(a, b, alo, ahi, blo, bhi) ==
    LET x == find_longest_match(a, b, alo, ahi, blo, bhi)
        i == x[1]
        j == x[2]
        k == x[3]
    IN IF k = 0 THEN <<>>
       ELSE (IF alo < i /\ blo < j
             THEN matching_blocks(a, b, alo, i, blo, j) ELSE <<>>)
            \o <<x>>
            \o (IF i + k < ahi /\ j + k < bhi
                THEN matching_blocks(a, b, i + k, ahi, j + k, bhi) ELSE <<>>)

RECURSIVE merge_blocks(_, _)
\* adjacent blocks are collapsed into one; cur is the block being grown
merge_blocks(blocks, cur) ==
    IF blocks = <<>> THEN (IF cur[3] > 0 THEN <<cur>> ELSE <<>>)
    ELSE LET x == Head(blocks) IN
         IF cur[1] + cur[3] = x[1] /\ cur[2] + cur[3] = x[2]
         THEN merge_blocks(Tail(blocks), <<cur[1], cur[2], cur[3] + x[3]>>)
         ELSE (IF cur[3] > 0 THEN <<cur>> ELSE <<>>)
              \o merge_blocks(Tail(blocks), x)

\* get_matching_blocks(): the merged blocks and the closing <<la, lb, 0>>
get_matching_blocks(a, b) ==
    Append(merge_blocks(matching_blocks(a, b, 0, Len(a), 0, Len(b)),
                        <<0, 0, 0>>),
           <<Len(a), Len(b), 0>>)

RECURSIVE opcodes_from(_, _, _)
\* the loop of get_opcodes(): i, j are where the previous block ended
opcodes_from(blocks, i, j) ==
    IF blocks = <<>> THEN <<>>
    ELSE LET ai == Head(blocks)[1]
             bj == Head(blocks)[2]
             size == Head(blocks)[3]
             tag == IF i < ai /\ j < bj THEN "replace"
                    ELSE IF i < ai THEN "delete"
                    ELSE IF j < bj THEN "insert"
                    ELSE ""
         IN (IF tag # "" THEN << <<tag, i, ai, j, bj>> >> ELSE <<>>)
            \o (IF size > 0
                THEN << <<"equal", ai, ai + size, bj, bj + size>> >>
                ELSE <<>>)
            \o opcodes_from(Tail(blocks), ai + size, bj + size)

get_opcodes(a, b) == opcodes_from(get_matching_blocks(a, b), 0, 0)

-----------------------------------------------------------------------------
(* applier.py: word_diff *)

\* One op of the result: (op, text)
Op(op, text) == [op |-> op, text |-> text]

RECURSIVE ops_of_replace_as_insert(_, _, _)
\* Faulty variant of ops_of: a 'replace' opcode gives the 'insert' op only.
ops_of_replace_as_insert(codes, current_tokens, target_tokens) ==
    IF codes = <<>> THEN <<>>
    ELSE LET c == Head(codes)
             cur == Concat(Slice(current_tokens, c[2], c[3]))
             tgt == Concat(Slice(target_tokens, c[4], c[5]))
             here == CASE c[1] = "equal" -> <<Op("equal", cur)>>
                       [] c[1] = "delete" -> <<Op("delete", cur)>>
                       [] c[1] = "insert" -> <<Op("insert", tgt)>>
                       [] c[1] = "replace" -> <<Op("insert", tgt)>>
         IN here \o ops_of_replace_as_insert(Tail(codes), current_tokens,
                                             target_tokens)

RECURSIVE ops_of_insert_first(_, _, _)
\* Faulty variant of ops_of: a 'replace' opcode gives the 'insert' op before
\* the 'delete' op.
ops_of_insert_first(codes, current_tokens, target_tokens) ==
    IF codes = <<>> THEN <<>>
    ELSE LET c == Head(codes)
             cur == Concat(Slice(current_tokens, c[2], c[3]))
             tgt == Concat(Slice(target_tokens, c[4], c[5]))
             here == CASE c[1] = "equal" -> <<Op("equal", cur)>>
                       [] c[1] = "delete" -> <<Op("delete", cur)>>
                       [] c[1] = "insert" -> <<Op("insert", tgt)>>
                       [] c[1] = "replace" ->
                            <<Op("insert", tgt), Op("delete", cur)>>
         IN here \o ops_of_insert_first(Tail(codes), current_tokens,
                                        target_tokens)

RECURSIVE ops_of(_, _, _)
\* the loop over matcher.get_opcodes()
ops_of(codes, current_tokens, target_tokens) ==
    IF codes = <<>> THEN <<>>
    ELSE LET c == Head(codes)
             cur == Concat(Slice(current_tokens, c[2], c[3]))
             tgt == Concat(Slice(target_tokens, c[4], c[5]))
             here == CASE c[1] = "equal" -> <<Op("equal", cur)>>
                       [] c[1] = "delete" -> <<Op("delete", cur)>>
                       [] c[1] = "insert" -> <<Op("insert", tgt)>>
                       [] c[1] = "replace" ->
                            <<Op("delete", cur), Op("insert", tgt)>>
         IN here \o ops_of(Tail(codes), current_tokens, target_tokens)

word_diff(current, target) ==
    LET current_tokens == tokenize(current)
        target_tokens == tokenize(target)
    IN ops_of(get_opcodes(current_tokens, target_tokens),
              current_tokens, target_tokens)

\* ''.join of the texts of the ops whose op is in kinds, in order
TextOf(ops, kinds) ==
    Concat([i \in 1..Len(SelectSeq(ops, LAMBDA o : o.op \in kinds)) |->
              SelectSeq(ops, LAMBDA o : o.op \in kinds)[i].text])

-----------------------------------------------------------------------------
(* The document tree.  Elements are [tag, id, author, preserve, text, kids]: *)
(* id is the w:id attribute (NoId when absent), author the w:author         *)
(* attribute, preserve whether xml:space="preserve" is set, text the        *)
(* character data of a text leaf (w:t, w:delText), kids the child elements. *)

NoId == -1

Elem(tag, id, author, kids) ==
    [tag |-> tag, id |-> id, author |-> author, preserve |-> FALSE,
     text |-> <<>>, kids |-> kids]

Leaf(tag, preserve, text) ==
    [tag |-> tag, id |-> NoId, author |-> "", preserve |-> preserve,
     text |-> text, kids |-> <<>>]

RECURSIVE getElementsByTagName(_, _)
\* minidom: the descendants of node with that tag, in document order
getElementsByTagName(node, tag) ==
    Concat([i \in 1..Len(node.kids) |->
              (IF node.kids[i].tag = tag THEN <<node.kids[i]>> ELSE <<>>)
              \o getElementsByTagName(node.kids[i], tag)])

RECURSIVE IdSeq(_)
\* the w:id values under (and on) node, one per attribute, in document order
IdSeq(node) ==
    (IF node.id = NoId THEN <<>> ELSE <<node.id>>)
    \o Concat([i \in 1..Len(node.kids) |-> IdSeq(node.kids[i])])

RECURSIVE IdsOf(_)
\* every w:id value under (and on) node
IdsOf(node) ==
    (IF node.id = NoId THEN {} ELSE {node.id})
    \cup UNION {IdsOf(node.kids[i]) : i \in 1..Len(node.kids)}

-----------------------------------------------------------------------------
(* applier.py: _escape_xml, and the XML parser's reading of character data *)

RECURSIVE str_replace(_, _, _)
\* text.replace(old, new) for a one-character old
str_replace(text, old, new) ==
    IF text = <<>> THEN <<>>
    ELSE (IF Head(text) = old THEN new ELSE <<Head(text)>>)
         \o str_replace(Tail(text), old, new)

amp == <<"&", "a", "m", "p", ";">>
lt == <<"&", "l", "t", ";">>
gt == <<"&", "g", "t", ";">>
quot == <<"&", "q", "u", "o", "t", ";">>
apos == <<"&", "a", "p", "o", "s", ";">>

\* Faulty variant of _escape_xml: "&" is replaced last.
_escape_xml_amp_last(text) ==
    str_replace(
      str_replace(
        str_replace(
          str_replace(
            str_replace(text, "<", lt),
            ">", gt),
          "\"", quot),
        "'", apos),
      "&", amp)

_escape_xml(text) ==
    str_replace(
      str_replace(
        str_replace(
          str_replace(
            str_replace(text, "&", amp),
            "<", lt),
          ">", gt),
        "\"", quot),
      "'", apos)

\* The predefined entities of XML and the characters they stand for.
Entities == {<<amp, "&">>, <<lt, "<">>, <<gt, ">">>, <<quot, "\"">>,
             <<apos, "'">>}

IsPrefix(pre, s) == Len(pre) <= Len(s) /\ SubSeq(s, 1, Len(pre)) = pre

Malformed == <<"<malformed>">>

RECURSIVE parse_chardata(_)
\* The character data the XML parser (minidom) reads from the markup text
\* of a leaf: entity references are replaced by their characters; a bare
\* "&" or "<" is not well-formed; a line end written "\r\n" or "\r" is
\* read as "\n".
parse_chardata(markup) ==
    IF markup = <<>> THEN <<>>
    ELSE IF Head(markup) = "<" THEN Malformed
    ELSE IF Head(markup) = "\r"
         THEN LET after_cr == Tail(markup)
                  rest == parse_chardata(
                             IF after_cr # <<>> /\ Head(after_cr) = "\n"
                             THEN Tail(after_cr) ELSE after_cr)
              IN IF rest = Malformed THEN Malformed ELSE <<"\n">> \o rest
    ELSE IF Head(markup) = "&"
         THEN IF \E e \in Entities : IsPrefix(e[1], markup)
              THEN LET e == CHOOSE e \in Entities : IsPrefix(e[1], markup)
                       rest == parse_chardata(
                                  SubSeq(markup, Len(e[1]) + 1, Len(markup)))
                   IN IF rest = Malformed THEN Malformed ELSE <<e[2]>> \o rest
              ELSE Malformed
    ELSE LET rest == parse_chardata(Tail(markup))
         IN IF rest = Malformed THEN Malformed ELSE <<Head(markup)>> \o rest

-----------------------------------------------------------------------------
(* applier.py: DiffBasedApplier._build_diff_xml *)

\* Faulty variant of space_attr: only a leading space is looked at.
space_attr_leading_only(text) == text # <<>> /\ text[1] = " "

\* text.startswith(' ') or text.endswith(' ')
space_attr(text) ==
    text # <<>> /\ (text[1] = " " \/ text[Len(text)] = " ")

\* The w:author value the f-strings of _build_diff_xml write.
FragmentAuthor == "Claude"

\* One part of the XML string: the element an op is written as.  The text
\* of the leaf is markup (escaped) text.
part_of(op, id) ==
    LET text == _escape_xml(op.text) IN
    CASE op.op = "equal" ->
           Elem("w:r", NoId, "", <<Leaf("w:t", space_attr(op.text), text)>>)
      [] op.op = "delete" ->
           Elem("w:del", id, FragmentAuthor,
                <<Elem("w:r", NoId, "",
                       <<Leaf("w:delText", space_attr(op.text), text)>>)>>)
      [] op.op = "insert" ->
           Elem("w:ins", id, FragmentAuthor,
                <<Elem("w:r", NoId, "",
                       <<Leaf("w:t", space_attr(op.text), text)>>)>>)

RECURSIVE _build_diff_xml_id_per_op(_, _)
\* Faulty variant of _build_diff_xml: an 'equal' op takes an id as well.
_build_diff_xml_id_per_op(ops, next_id) ==
    IF ops = <<>> THEN [parts |-> <<>>, next_revision_id |-> next_id]
    ELSE LET op == Head(ops) IN
         IF op.text = <<>> THEN _build_diff_xml_id_per_op(Tail(ops), next_id)
         ELSE LET rest == _build_diff_xml_id_per_op(Tail(ops), next_id + 1)
              IN [parts |-> <<part_of(op, next_id)>> \o rest.parts,
                  next_revision_id |-> rest.next_revision_id]

RECURSIVE _build_diff_xml(_, _)
\* Returns the parts of the XML string and the value of
\* self.next_revision_id after the call; next_id is its value before.
_build_diff_xml(ops, next_id) ==
    IF ops = <<>> THEN [parts |-> <<>>, next_revision_id |-> next_id]
    ELSE LET op == Head(ops) IN
         IF op.text = <<>> THEN _build_diff_xml(Tail(ops), next_id)
         ELSE LET takes == op.op \in {"delete", "insert"}
                  rest == _build_diff_xml(Tail(ops),
                                          IF takes THEN next_id + 1
                                          ELSE next_id)
              IN [parts |-> <<part_of(op, next_id)>> \o rest.parts,
                  next_revision_id |-> rest.next_revision_id]

RECURSIVE parse_node(_)
\* The element the document library builds from the markup of one part:
\* the same element with the character data of its leaves parsed.
parse_node(node) ==
    [node EXCEPT !.text = parse_chardata(node.text),
                 !.kids = [i \in 1..Len(node.kids) |->
                              parse_node(node.kids[i])]]

RECURSIVE WellFormed(_)
WellFormed(node) ==
    /\ parse_chardata(node.text) # Malformed
    /\ \A i \in 1..Len(node.kids) : WellFormed(node.kids[i])

-----------------------------------------------------------------------------
(* extractor.py: text states of a cell *)

\* t.firstChild.nodeValue of every leaf in nodes, joined
LeafTexts(nodes) == Concat([i \in 1..Len(nodes) |-> nodes[i].text])

\* RevisionExtractor._extract_text_from_node
_extract_text_from_node(node) ==
    LeafTexts(getElementsByTagName(node, "w:t"))
    \o LeafTexts(getElementsByTagName(node, "w:delText"))

\* The direct children of a paragraph with one of the tags, as texts.
ChildTexts(para, tags) ==
    Concat([i \in 1..Len(para.kids) |->
              IF para.kids[i].tag \in tags
              THEN _extract_text_from_node(para.kids[i]) ELSE <<>>])

\* Faulty variant of _extract_text_versions_from_cell: the text of a w:del
\* is appended to after_text as well.
_extract_text_versions_from_cell_del_in_after(cell) ==
    LET paragraphs == getElementsByTagName(cell, "w:p")
        sep(i) == IF i > 1 THEN <<"\n">> ELSE <<>>
        both == Concat([i \in 1..Len(paragraphs) |->
                          sep(i) \o ChildTexts(paragraphs[i],
                                               {"w:r", "w:del", "w:ins"})])
    IN [before_text |->
          Concat([i \in 1..Len(paragraphs) |->
                    sep(i) \o ChildTexts(paragraphs[i], {"w:r", "w:del"})]),
        after_text |-> both,
        has_revisions |->
          \E i \in 1..Len(paragraphs) :
             \E k \in 1..Len(paragraphs[i].kids) :
                paragraphs[i].kids[k].tag \in {"w:del", "w:ins"}]

\* Faulty variant of _extract_text_versions_from_cell: the line break is
\* appended after every paragraph instead of before all but the first.
_extract_text_versions_from_cell_break_after(cell) ==
    LET paragraphs == getElementsByTagName(cell, "w:p")
    IN [before_text |->
          Concat([i \in 1..Len(paragraphs) |->
                    ChildTexts(paragraphs[i], {"w:r", "w:del"}) \o <<"\n">>]),
        after_text |->
          Concat([i \in 1..Len(paragraphs) |->
                    ChildTexts(paragraphs[i], {"w:r", "w:ins"}) \o <<"\n">>]),
        has_revisions |->
          \E i \in 1..Len(paragraphs) :
             \E k \in 1..Len(paragraphs[i].kids) :
                paragraphs[i].kids[k].tag \in {"w:del", "w:ins"}]

\* RevisionExtractor._extract_text_versions_from_cell
_extract_text_versions_from_cell(cell) ==
    LET paragraphs == getElementsByTagName(cell, "w:p")
        sep(i) == IF i > 1 THEN <<"\n">> ELSE <<>>
    IN [before_text |->
          Concat([i \in 1..Len(paragraphs) |->
                    sep(i) \o ChildTexts(paragraphs[i], {"w:r", "w:del"})]),
        after_text |->
          Concat([i \in 1..Len(paragraphs) |->
                    sep(i) \o ChildTexts(paragraphs[i], {"w:r", "w:ins"})]),
        has_revisions |->
          \E i \in 1..Len(paragraphs) :
             \E k \in 1..Len(paragraphs[i].kids) :
                paragraphs[i].kids[k].tag \in {"w:del", "w:ins"}]

\* RevisionExtractor._extract_all_text_from_cell
_extract_all_text_from_cell(cell) ==
    LET paragraphs == getElementsByTagName(cell, "w:p")
    IN Concat([i \in 1..Len(paragraphs) |->
                 (IF i > 1 THEN <<"\n">> ELSE <<>>)
                 \o LeafTexts(getElementsByTagName(paragraphs[i], "w:t"))])

-----------------------------------------------------------------------------
(* The document library (scripts.document.Document), as the applier uses it *)

RECURSIVE PathsTo(_, _)
\* The paths (child positions from the root) of the descendants of node
\* with that tag, in document order.
PathsTo(node, tag) ==
    Concat([i \in 1..Len(node.kids) |->
              (IF node.kids[i].tag = tag THEN << <<i>> >> ELSE <<>>)
              \o LET below == PathsTo(node.kids[i], tag)
                 IN [k \in 1..Len(below) |-> <<i>> \o below[k]]])

\* What get_node may answer when no node can be returned: it raises.
Raises == <<0>>

\* get_node(tag="w:r", contains=""): every w:r matches the empty text.  No
\* w:r: it raises.  One w:r: that node.  Several: the first one in document
\* order, as the comment at the call expects, or the library raises.
get_node(root) ==
    LET found == PathsTo(root, "w:r")
    IN IF found = <<>> THEN {Raises}
       ELSE IF Len(found) = 1 THEN {found[1]}
       ELSE {found[1], Raises}

RECURSIVE replace_at(_, _, _)
\* replace_node(node, xml) on the tree: the element at path is replaced, in
\* its parent, by the elements parsed from the fragment.
replace_at(node, path, nodes) ==
    LET i == Head(path)
        before == SubSeq(node.kids, 1, i - 1)
        after == SubSeq(node.kids, i + 1, Len(node.kids))
    IN IF Len(path) = 1
       THEN [node EXCEPT !.kids = before \o nodes \o after]
       ELSE [node EXCEPT !.kids =
               before \o <<replace_at(node.kids[i], Tail(path), nodes)>>
                      \o after]

\* The part carries the attribute w16du:dateUtc (a w:del or a w:ins).
uses_w16du(part) == part.tag \in {"w:del", "w:ins"}

\* replace_node(node, replacement_xml): the fragment is parsed under the
\* prefixes document.xml declares and the node is replaced by its elements,
\* or an exception is raised with the tree as it was: the fragment is not
\* well-formed, or it uses a prefix that is not declared.
replace_node(root, path, parts) ==
    IF /\ \A i \in 1..Len(parts) : WellFormed(parts[i])
       /\ (\E i \in 1..Len(parts) : uses_w16du(parts[i])) => w16du_declared
    THEN [raised |-> FALSE,
          root |-> replace_at(root, path,
                      [i \in 1..Len(parts) |-> parse_node(parts[i])])]
    ELSE [raised |-> TRUE, root |-> root]

-----------------------------------------------------------------------------
(* applier.py: RevisionApplier.__init__, DiffBasedApplier *)

\* Faulty variant of _get_next_revision_id: only the ids of w:ins and w:del are
\* scanned.
_get_next_revision_id_revisions_only(root) ==
    LET spans == getElementsByTagName(root, "w:ins")
                 \o getElementsByTagName(root, "w:del")
        ids == {spans[i].id : i \in 1..Len(spans)} \ {NoId}
    IN IF ids # {}
       THEN (CHOOSE m \in ids : \A x \in ids : x <= m) + 1
       ELSE 0

\* RevisionApplier._get_next_revision_id: ids are the values of every
\* w:id="<digits>" of document.xml, on whatever tag.
_get_next_revision_id(root) ==
    LET ids == IdsOf(root)
    IN IF ids # {}
       THEN (CHOOSE m \in ids : \A x \in ids : x <= m) + 1
       ELSE 0

\* DiffBasedApplier._find_cell_content_node: an exception of get_node is
\* answered with None.  row_index and column_index are not read.
NoNode == <<0>>

_find_cell_content_node(root, row_index, column_index) ==
    {IF n = Raises THEN NoNode ELSE n : n \in get_node(root)}

\* A value that is not a str (a number in the mapper's JSON).
NonString == <<"<not a str>">>

\* any(op[0] in ('delete', 'insert') for op in operations)
has_changes(ops) ==
    \E i \in 1..Len(ops) : ops[i].op \in {"delete", "insert"}

\* What a call returns and leaves behind when no fragment was built.
Outcome(result, why, root, next_id) ==
    [result |-> result, why |-> why, doc |-> root,
     next_revision_id |-> next_id, written |-> <<>>]

\* The same after _build_diff_xml: self.next_revision_id is where the
\* build left it, written are the w:id values of the fragment, in order.
Built(result, why, root, built) ==
    [result |-> result, why |-> why, doc |-> root,
     next_revision_id |-> built.next_revision_id,
     written |-> Concat([i \in 1..Len(built.parts) |->
                           IdSeq(built.parts[i])])]

\* Faulty variant of apply_diff_to_row: a statement after replace_node (the print
\* of the success line) may raise, and the call then returns False.
apply_diff_to_row_late_failure(root, next_id, row_index, column_index, current, after) ==
    IF current = after
    THEN {Outcome(TRUE, "same_text", root, next_id)}
    ELSE IF current = NonString \/ after = NonString
    THEN {Outcome(FALSE, "word_diff_raised", root, next_id)}
    ELSE LET ops == word_diff(current, after) IN
         IF ~has_changes(ops)
         THEN {Outcome(TRUE, "no_changes", root, next_id)}
         ELSE UNION {
                IF node = NoNode
                THEN {Outcome(FALSE, "not_found", root, next_id)}
                ELSE LET built == _build_diff_xml(ops, next_id)
                         new == replace_node(root, node, built.parts)
                     IN IF new.raised
                        THEN {Built(FALSE, "replace_raised", new.root, built)}
                        ELSE {Built(TRUE, "replaced", new.root, built),
                              Built(FALSE, "print_raised", new.root, built)} :
                node \in _find_cell_content_node(root, row_index,
                                                 column_index)}

\* Faulty variant of apply_diff_to_row: the two early returns for unchanged text
\* are missing.
apply_diff_to_row_no_skip(root, next_id, row_index, column_index, current, after) ==
    IF current = NonString \/ after = NonString
    THEN {Outcome(FALSE, "word_diff_raised", root, next_id)}
    ELSE LET ops == word_diff(current, after) IN
         UNION {
           IF node = NoNode
           THEN {Outcome(FALSE, "not_found", root, next_id)}
           ELSE LET built == _build_diff_xml(ops, next_id)
                    new == replace_node(root, node, built.parts)
                IN IF new.raised
                   THEN {Built(FALSE, "replace_raised", new.root, built)}
                   ELSE {Built(TRUE, "replaced", new.root, built)} :
           node \in _find_cell_content_node(root, row_index, column_index)}

\* Faulty variant of apply_diff_to_row: when replace_node raises, the
\* counter is set back to its value before the fragment was built.
apply_diff_to_row_rollback(root, next_id, row_index, column_index, current, after) ==
    IF current = after
    THEN {Outcome(TRUE, "same_text", root, next_id)}
    ELSE IF current = NonString \/ after = NonString
    THEN {Outcome(FALSE, "word_diff_raised", root, next_id)}
    ELSE LET ops == word_diff(current, after) IN
         IF ~has_changes(ops)
         THEN {Outcome(TRUE, "no_changes", root, next_id)}
         ELSE UNION {
                IF node = NoNode
                THEN {Outcome(FALSE, "not_found", root, next_id)}
                ELSE LET built == _build_diff_xml(ops, next_id)
                         new == replace_node(root, node, built.parts)
                     IN IF new.raised
                        THEN {[Built(FALSE, "replace_raised", new.root, built)
                                 EXCEPT !.next_revision_id = next_id]}
                        ELSE {Built(TRUE, "replaced", new.root, built)} :
                node \in _find_cell_content_node(root, row_index,
                                                 column_index)}

\* DiffBasedApplier.apply_diff_to_row: the set of outcomes of one call, each
\* with the value returned, the tree and self.next_revision_id after it.
\* why names the return statement or the statement that raised.
apply_diff_to_row(root, next_id, row_index, column_index, current, after) ==
    IF current = after
    THEN {Outcome(TRUE, "same_text", root, next_id)}
    ELSE IF current = NonString \/ after = NonString
    THEN {Outcome(FALSE, "word_diff_raised", root, next_id)}
    ELSE LET ops == word_diff(current, after) IN
         IF ~has_changes(ops)
         THEN {Outcome(TRUE, "no_changes", root, next_id)}
         ELSE UNION {
                IF node = NoNode
                THEN {Outcome(FALSE, "not_found", root, next_id)}
                ELSE LET built == _build_diff_xml(ops, next_id)
                         new == replace_node(root, node, built.parts)
                     IN IF new.raised
                        THEN {Built(FALSE, "replace_raised", new.root, built)}
                        ELSE {Built(TRUE, "replaced", new.root, built)} :
                node \in _find_cell_content_node(root, row_index,
                                                 column_index)}

-----------------------------------------------------------------------------
(* Documents and arguments of the applier's specification *)

\* Calls of apply_diff_to_row (direct, or one per entry of a pass) in a run.
MaxCalls == 2

Run(text) == Elem("w:r", NoId, "", <<Leaf("w:t", FALSE, text)>>)
DelSpan(id, text) ==
    Elem("w:del", id, "Alice",
         <<Elem("w:r", NoId, "", <<Leaf("w:delText", FALSE, text)>>)>>)
InsSpan(id, text) ==
    Elem("w:ins", id, "Alice", <<Run(text)>>)
Bookmark(id) == Elem("w:bookmarkStart", id, "", <<>>)
Para(kids) == Elem("w:p", NoId, "", kids)
Cell(paras) == Elem("w:tc", NoId, "", paras)
Row(cells) == Elem("w:tr", NoId, "", cells)
Body(blocks) ==
    Elem("w:document", NoId, "", <<Elem("w:body", NoId, "", blocks)>>)
Table(rows) == Elem("w:tbl", NoId, "", rows)

EmptyCell == Cell(<<Para(<<>>)>>)

ab == <<"a", " ", "b">>
cb == <<"c", " ", "b">>

\* A table with one run in all, in the target cell of row 0, and no w:id.
DocPlain ==
    Body(<<Table(<<Row(<<EmptyCell, Cell(<<Para(<<Run(ab)>>)>>)>>),
                   Row(<<EmptyCell, EmptyCell>>)>>)>>)

\* A bilingual table: tracked changes in the source column, a bookmark whose
\* w:id is the largest, a target cell of two runs and one of two paragraphs.
DocRevised ==
    Body(<<Table(<<
        Row(<<Cell(<<Para(<<Run(<<"x">>), DelSpan(3, <<"y">>),
                            InsSpan(7, <<"z">>)>>)>>),
              Cell(<<Para(<<Run(<<"a">>), Run(<<" ", "b">>)>>)>>)>>),
        Row(<<Cell(<<Para(<<Bookmark(9), Run(<<"x">>)>>)>>),
              Cell(<<Para(<<Run(ab)>>), Para(<<Run(cb)>>)>>)>>)>>)>>)

\* A table with no run at all below a heading that holds the only run.
DocTitled ==
    Body(<<Para(<<Run(<<"T">>)>>),
           Table(<<Row(<<EmptyCell, EmptyCell>>),
                   Row(<<Cell(<<Para(<<Bookmark(4)>>)>>), EmptyCell>>)>>)>>)

InitialDocs == {DocPlain, DocRevised, DocTitled}

\* Arguments of apply_diff_to_row: indexes in and out of the range of the
\* tables (2 rows, 2 columns), texts, and for target_after also a value
\* that is not a str.
RowArgs == 0..2
ColArgs == 0..2
AppTexts == {<<>>, ab, cb}
AfterArgs == AppTexts \cup {NonString}

\* Arguments of apply_mapped_revisions: the mapper's results for rows 0, 1,
\* ... in order, each with the text of a target cell (empty, or "a b") as
\* target_current.
PassCurrents == {<<>>, ab}

\* The column_index a pass is given: the default of the parameter, which is
\* also the engine's default target column.
PassColumns == {1}

ResultLists(n) ==
    UNION {{[k \in 1..len |->
               [row_index |-> k - 1, target_current |-> pairs[k][1],
                target_after |-> pairs[k][2]]] :
              pairs \in [1..len -> PassCurrents \X AfterArgs]} :
           len \in 1..n}

\* The cell at (row, col) as the extractor finds it, or NoCell.
NoCell == Elem("none", NoId, "", <<>>)

CellAt(root, row, col) ==
    LET rows == getElementsByTagName(root, "w:tr")
    IN IF row + 1 > Len(rows) THEN NoCell
       ELSE LET cells == getElementsByTagName(rows[row + 1], "w:tc")
            IN IF col + 1 > Len(cells) THEN NoCell ELSE cells[col + 1]

-----------------------------------------------------------------------------
(* Spec: one applier on one document *)

NoStates == [before_text |-> <<>>, after_text |-> <<>>,
             has_revisions |-> FALSE]

NoCall == [current |-> <<>>, after |-> <<>>, result |-> FALSE,
           why |-> "none", ids |-> <<>>]

\* The author an applier is constructed with when none is given, which is
\* also the default of the engine's author parameter.
DefaultAuthor == "Claude"

\* Authors a caller may supply.
Authors == {DefaultAuthor, "Alice"}

\* An applier constructed on one of the documents with one of the authors.
InitApplier(authors) ==
    /\ JIEBA_AVAILABLE = TRUE
    /\ jieba_cuts = {}
    /\ current_text = <<>>
    /\ target_after = <<>>
    /\ token_lists = <<>>
    /\ operations = <<>>
    /\ states = NoStates
    /\ phase = "applier"
    /\ plain_text = <<>>
    /\ escaped = <<>>
    /\ applier_author \in authors
    /\ doc \in InitialDocs
    /\ w16du_declared \in BOOLEAN
    /\ next_revision_id = _get_next_revision_id(doc)
    /\ loaded_ids = IdsOf(doc)
    /\ issued = <<>>
    /\ calls = 0
    /\ last = NoCall
    /\ pc = "idle"
    /\ mapped_results = <<>>
    /\ pass_column = 1
    /\ handled = 0
    /\ success_count = 0
    /\ attempts = <<>>
    /\ returned = 0
    /\ prev_pass = [results |-> <<>>, column |-> 1, passes |-> 0,
                    doc |-> doc]
    /\ pass_start = doc
    /\ MapperIdle

Init == InitApplier({DefaultAuthor})

\* One call apply_diff_to_row(row, col, current, after) on self
Call(row, col, current, after) ==
    \E o \in apply_diff_to_row(doc, next_revision_id, row, col, current,
                               after) :
        /\ doc' = o.doc
        /\ next_revision_id' = o.next_revision_id
        /\ issued' = issued \o o.written
        /\ last' = [current |-> current, after |-> after,
                    result |-> o.result, why |-> o.why, ids |-> o.written]
        /\ calls' = calls + 1

\* A direct call of apply_diff_to_row
Apply ==
    /\ pc = "idle"
    /\ calls < MaxCalls
    /\ \E row \in RowArgs, col \in ColArgs, current \in AppTexts,
          after \in AfterArgs : Call(row, col, current, after)
    /\ UNCHANGED <<mapvars, applier_author, w16du_declared, loaded_ids, pc, mapped_results, pass_column, handled,
                   success_count, attempts, returned, prev_pass,
                   pass_start, JIEBA_AVAILABLE, jieba_cuts, diffvars>>

\* apply_mapped_revisions(mapped_results, column_index) is entered
StartPass ==
    /\ pc = "idle"
    /\ calls < MaxCalls
    /\ \E results \in ResultLists(MaxCalls - calls), col \in PassColumns :
          /\ mapped_results' = results
          /\ pass_column' = col
    /\ pc' = "pass"
    /\ handled' = 0
    /\ success_count' = 0
    /\ attempts' = <<>>
    /\ pass_start' = doc
    /\ UNCHANGED <<mapvars, applier_author, doc, w16du_declared, next_revision_id, loaded_ids, issued, calls, last,
                   returned, prev_pass, JIEBA_AVAILABLE, jieba_cuts,
                   diffvars>>

\* Faulty variant of PassStep: the loop stops at the first call that returns False.
PassStep_stop_on_failure ==
    /\ pc = "pass"
    /\ handled < Len(mapped_results)
    /\ LET result == mapped_results[handled + 1] IN
       \/ /\ result.target_after = <<>>
          /\ calls' = calls + 1
          /\ handled' = handled + 1
          /\ UNCHANGED <<doc, next_revision_id, issued, last, success_count,
                         attempts>>
       \/ /\ result.target_after # <<>>
          /\ Call(result.row_index, pass_column, result.target_current,
                  result.target_after)
          /\ success_count' =
                IF last'.result THEN success_count + 1 ELSE success_count
          /\ attempts' = Append(attempts, <<result.row_index, last'.result>>)
          /\ handled' = IF last'.result THEN handled + 1
                        ELSE Len(mapped_results)
    /\ UNCHANGED <<mapvars, applier_author, w16du_declared, loaded_ids, pc, mapped_results, pass_column, returned,
                   prev_pass, pass_start, JIEBA_AVAILABLE, jieba_cuts,
                   diffvars>>

\* Faulty variant of PassStep: the loop takes the entries from the last one.
PassStep_last_first ==
    /\ pc = "pass"
    /\ handled < Len(mapped_results)
    /\ LET result == mapped_results[Len(mapped_results) - handled] IN
       \/ /\ result.target_after = <<>>
          /\ calls' = calls + 1
          /\ UNCHANGED <<doc, next_revision_id, issued, last, success_count,
                         attempts>>
       \/ /\ result.target_after # <<>>
          /\ Call(result.row_index, pass_column, result.target_current,
                  result.target_after)
          /\ success_count' =
                IF last'.result THEN success_count + 1 ELSE success_count
          /\ attempts' = Append(attempts, <<result.row_index, last'.result>>)
    /\ handled' = handled + 1
    /\ UNCHANGED <<mapvars, applier_author, w16du_declared, loaded_ids, pc, mapped_results, pass_column, returned,
                   prev_pass, pass_start, JIEBA_AVAILABLE, jieba_cuts,
                   diffvars>>

\* One turn of the loop of apply_mapped_revisions
PassStep ==
    /\ pc = "pass"
    /\ handled < Len(mapped_results)
    /\ LET result == mapped_results[handled + 1] IN
       \/ /\ result.target_after = <<>>
          /\ calls' = calls + 1
          /\ UNCHANGED <<doc, next_revision_id, issued, last, success_count,
                         attempts>>
       \/ /\ result.target_after # <<>>
          /\ Call(result.row_index, pass_column, result.target_current,
                  result.target_after)
          /\ success_count' =
                IF last'.result THEN success_count + 1 ELSE success_count
          /\ attempts' = Append(attempts, <<result.row_index, last'.result>>)
    /\ handled' = handled + 1
    /\ UNCHANGED <<mapvars, applier_author, w16du_declared, loaded_ids, pc, mapped_results, pass_column, returned,
                   prev_pass, pass_start, JIEBA_AVAILABLE, jieba_cuts,
                   diffvars>>

\* return success_count
PassReturn ==
    /\ pc = "pass"
    /\ handled = Len(mapped_results)
    /\ pc' = "idle"
    /\ returned' = success_count
    /\ prev_pass' = [results |-> mapped_results, column |-> pass_column,
                     passes |-> prev_pass.passes + 1, doc |-> doc]
    /\ UNCHANGED <<mapvars, applier_author, doc, w16du_declared, next_revision_id, loaded_ids, issued, calls, last,
                   mapped_results, pass_column, handled, success_count,
                   attempts, pass_start, JIEBA_AVAILABLE, jieba_cuts,
                   diffvars>>

Next == Apply \/ StartPass \/ PassStep \/ PassReturn

Spec == Init /\ [][Next]_vars

\* The same applier, constructed with any author.
InitAuthor == InitApplier(Authors)

SpecAuthor == InitAuthor /\ [][Next]_vars

-----------------------------------------------------------------------------
(* Claims about the applier (under Spec) *)

\* The (row, col) positions of the tables, in and out of range.
Positions == RowArgs \X ColArgs

\* The step is the call apply_diff_to_row(p[1], p[2], current, after), with
\* the texts the step records in last.
\* A step that calls apply_diff_to_row: a direct call, or a turn of the loop
\* on an entry whose target_after is not empty.  last' records the call.
CallStep ==
    /\ calls' = calls + 1
    /\ pc = "pass" => mapped_results[handled + 1].target_after # <<>>

IsCall(p) == Call(p[1], p[2], last'.current, last'.after)

\* C1: every id written by _build_diff_xml is greater than every w:id of
\* document.xml at construction (on any tag) and than every id issued
\* before it, occurs at most once in the document, and the first one is 0
\* when the document had no w:id.
C1_FreshIds ==
    /\ LET ids == IdSeq(doc) IN
       \A i \in 1..Len(issued) :
          /\ \A x \in loaded_ids : issued[i] > x
          /\ \A j \in 1..(i - 1) : issued[j] < issued[i]
          /\ Cardinality({k \in 1..Len(ids) : ids[k] = issued[i]}) <= 1
    /\ (loaded_ids = {} /\ issued # <<>> => issued[1] = 0)

\* C1 witness: two calls issued ids on a document whose largest w:id was on
\* a bookmark, and the ids of both calls are in the tree.
C1_Witness ==
    /\ 9 \in loaded_ids
    /\ Len(issued) >= 3
    /\ calls = 2
    /\ Range(issued) \subseteq IdsOf(doc)

\* C2: the node a call replaces lies in the cell at (row_index,
\* column_index), and the cells at the other positions keep their content.
C2_TargetCellOnly ==
    [][\A p \in Positions :
          (CallStep /\ last'.why = "replaced" /\ IsCall(p)) =>
             /\ CellAt(doc', p[1], p[2]) # CellAt(doc, p[1], p[2])
             /\ \A q \in Positions \ {p} :
                   CellAt(doc', q[1], q[2]) = CellAt(doc, q[1], q[2])]_vars

\* The cell's text states are (text, text): an unrevised cell reading text.
CellReads(cell, text) ==
    /\ cell # NoCell
    /\ _extract_text_versions_from_cell(cell).before_text = text
    /\ _extract_text_versions_from_cell(cell).after_text = text

\* C3: after a successful call whose current_text was the text of the
\* target cell, the text states of that cell are (current_text,
\* target_after).
C3_CellHoldsDiff ==
    [][\A p \in Positions :
          (CallStep /\ last'.result /\ IsCall(p)
             /\ CellReads(CellAt(doc, p[1], p[2]), last'.current)) =>
             LET now == _extract_text_versions_from_cell(
                           CellAt(doc', p[1], p[2]))
             IN /\ now.before_text = last'.current
                /\ now.after_text = last'.after]_vars

\* C7: a call that returns False leaves the tree as it was.
C7_FailureLeavesTree ==
    [][(CallStep /\ ~last'.result) => doc' = doc]_vars

\* C7 witness: a call failed in replace_node, after the fragment was built
\* with fresh ids.
C7_Witness ==
    /\ last.why = "replace_raised"
    /\ ~last.result
    /\ last.ids # <<>>

\* C17: a call whose row_index or column_index names no cell of the
\* current tree returns False and leaves the tree as it was.
C17_OutOfRangeNotFound ==
    [][\A p \in Positions :
          (CallStep /\ IsCall(p) /\ CellAt(doc, p[1], p[2]) = NoCell) =>
             /\ ~last'.result
             /\ doc' = doc]_vars

\* C25: inside apply_mapped_revisions the calls made so far are those for
\* the first entries of mapped_results whose target_after is not empty, one
\* call each, in the order of mapped_results; for results in the order of
\* the rows the row_index of the calls ascends.
C25_RowsInOrder ==
    pc = "pass" =>
        LET tried == SelectSeq(SubSeq(mapped_results, 1, handled),
                               LAMBDA r : r.target_after # <<>>)
        IN /\ Len(attempts) = Len(tried)
           /\ \A k \in 1..Len(tried) :
                 /\ attempts[k][1] = tried[k].row_index
                 /\ \A j \in 1..(k - 1) : attempts[j][1] < attempts[k][1]

\* C25 witness: the call for row 0 failed and the call for row 1 was made
\* after it.
C25_Witness ==
    /\ pc = "pass"
    /\ Len(attempts) = 2
    /\ attempts[1] = <<0, FALSE>>
    /\ attempts[2][1] = 1

\* C8: a second pass with the arguments of the pass just finished changes
\* neither the tree nor the ids in it.
C8_SecondPassNoOp ==
    (/\ pc = "pass"
     /\ handled = Len(mapped_results)
     /\ prev_pass.passes >= 1
     /\ prev_pass.results = mapped_results
     /\ prev_pass.column = pass_column
     /\ prev_pass.doc = pass_start)
    => (doc = pass_start /\ IdSeq(doc) = IdSeq(pass_start))

\* C9: a call with current_text = target_after, or whose diff has no delete
\* or insert op, returns True, leaves the tree as it was and takes no id.
C9_NoChangeNeeded ==
    [][(/\ CallStep
        /\ \/ last'.current = last'.after
           \/ /\ last'.after # NonString
              /\ ~has_changes(word_diff(last'.current, last'.after))) =>
          /\ last'.result
          /\ doc' = doc
          /\ next_revision_id' = next_revision_id
          /\ issued' = issued]_vars

\* C9 witness: a call with equal, non-empty texts on a document with a run
\* to replace has returned True.
C9_Witness ==
    /\ last.why = "same_text"
    /\ last.result
    /\ last.current = ab
    /\ PathsTo(doc, "w:r") # <<>>

\* The entries of results that a pass attempts: those whose target_after
\* is not empty.
Attempted(results) == SelectSeq(results, LAMBDA r : r.target_after # <<>>)

\* C10: a pass calls apply_diff_to_row for every entry with a non-empty
\* target_after, in order, whatever the earlier calls returned, and
\* returns the number of calls that returned True.
C10_PassCountsEveryRow ==
    (pc = "idle" /\ prev_pass.passes >= 1) =>
        /\ Len(attempts) = Len(Attempted(mapped_results))
        /\ \A i \in 1..Len(attempts) :
              attempts[i][1] = Attempted(mapped_results)[i].row_index
        /\ returned = Cardinality({i \in 1..Len(attempts) : attempts[i][2]})
        /\ returned \in 0..Len(mapped_results)

\* C10 witness: a finished pass whose first call failed and whose second
\* call succeeded.
C10_Witness ==
    /\ pc = "idle"
    /\ prev_pass.passes >= 1
    /\ Len(attempts) = 2
    /\ ~attempts[1][2]
    /\ attempts[2][2]
    /\ returned = 1

\* C12: the counter never decreases, and an id written into a fragment,
\* also one whose replacement raised, is never written again.
C12_IdsNeverReused ==
    [][/\ next_revision_id' >= next_revision_id
       /\ \A i \in (Len(issued) + 1)..Len(issued') :
             \A j \in 1..(i - 1) : issued'[j] # issued'[i]]_vars

\* C12 witness: two calls built a fragment and failed in replace_node; the
\* second took ids after those the first had consumed.
C12_Witness ==
    /\ ~w16du_declared
    /\ calls = 2
    /\ last.why = "replace_raised"
    /\ last.ids # <<>>
    /\ Len(issued) > Len(last.ids)
    /\ next_revision_id > issued[Len(issued)]

\* The w:del and w:ins elements of the tree that the applier synthesized:
\* those carrying an id _build_diff_xml issued.
SynthesizedSpans(root) ==
    SelectSeq(getElementsByTagName(root, "w:del")
              \o getElementsByTagName(root, "w:ins"),
              LAMBDA n : n.id \in Range(issued))

\* C11 (under SpecAuthor): every synthesized w:del and w:ins carries the
\* author the applier was constructed with.
C11_SpansCarryAuthor ==
    \A i \in 1..Len(SynthesizedSpans(doc)) :
        SynthesizedSpans(doc)[i].author = applier_author

-----------------------------------------------------------------------------
(* SpecExtract: the extractor on the one cell of a document, as the cell    *)
(* grows by one element at a time.                                          *)

\* Elements added to the empty cell.
MaxNodes == 3

\* A hyperlink of a paragraph, around run-level content.
Hyperlink(kids) == Elem("w:hyperlink", NoId, "", kids)

\* A w:del around an inserted span: spans nested in one another.
DelAround(id, kids) == Elem("w:del", id, "Alice", kids)

SpanTexts == {<<"a">>, <<"b">>}

\* The children a paragraph of the cell may be given.
SpanShapes ==
    UNION {{Run(t), DelSpan(1, t), InsSpan(1, t), Hyperlink(<<Run(t)>>),
            Hyperlink(<<InsSpan(1, t)>>), DelAround(1, <<InsSpan(2, t)>>)} :
           t \in SpanTexts}

\* A document whose table has the one cell.
OneCellDoc(cell) == Body(<<Table(<<Row(<<cell>>)>>)>>)

TheCell == CellAt(doc, 0, 0)

\* The children of the paragraphs of a cell, paragraph by paragraph.
SpansOf(cell) ==
    Concat([i \in 1..Len(cell.kids) |-> cell.kids[i].kids])

\* The cell with one more child in its last paragraph.
WithSpan(cell, span) ==
    LET n == Len(cell.kids) IN
    [cell EXCEPT !.kids[n].kids = Append(cell.kids[n].kids, span)]

\* The cell with one more, empty, paragraph.
WithParagraph(cell) == [cell EXCEPT !.kids = Append(cell.kids, Para(<<>>))]

\* Both extractions of the cell of the document.
Extracted(cell) ==
    /\ doc' = OneCellDoc(cell)
    /\ states' = _extract_text_versions_from_cell(cell)
    /\ plain_text' = _extract_all_text_from_cell(cell)

InitExtract ==
    /\ JIEBA_AVAILABLE = TRUE
    /\ jieba_cuts = {}
    /\ current_text = <<>>
    /\ target_after = <<>>
    /\ token_lists = <<>>
    /\ operations = <<>>
    /\ escaped = <<>>
    /\ phase = "cell"
    /\ doc = OneCellDoc(Cell(<<Para(<<>>)>>))
    /\ states = _extract_text_versions_from_cell(TheCell)
    /\ plain_text = _extract_all_text_from_cell(TheCell)
    /\ applier_author = DefaultAuthor
    /\ next_revision_id = 0
    /\ w16du_declared = TRUE
    /\ loaded_ids = {}
    /\ issued = <<>>
    /\ calls = 0
    /\ last = NoCall
    /\ pc = "idle"
    /\ mapped_results = <<>>
    /\ pass_column = 1
    /\ handled = 0
    /\ success_count = 0
    /\ attempts = <<>>
    /\ returned = 0
    /\ prev_pass = [results |-> <<>>, column |-> 1, passes |-> 0,
                    doc |-> doc]
    /\ pass_start = doc
    /\ MapperIdle

\* What the steps of SpecExtract leave alone.
ExtractFrame ==
    UNCHANGED <<mapvars, JIEBA_AVAILABLE, jieba_cuts, current_text, target_after,
                token_lists, operations, escaped, phase, applier_author,
                next_revision_id, w16du_declared, loaded_ids, issued, calls,
                last, pc, mapped_results, pass_column, handled,
                success_count, attempts, returned, prev_pass, pass_start>>

\* The extractions of the cell after its last paragraph got one more child
ExtractWithSpan ==
    /\ phase = "cell"
    /\ Len(SpansOf(TheCell)) + Len(TheCell.kids) <= MaxNodes
    /\ \E span \in SpanShapes : Extracted(WithSpan(TheCell, span))
    /\ ExtractFrame

\* The extractions of the cell after it got one more paragraph
ExtractWithParagraph ==
    /\ phase = "cell"
    /\ Len(SpansOf(TheCell)) + Len(TheCell.kids) <= MaxNodes
    /\ Extracted(WithParagraph(TheCell))
    /\ ExtractFrame

NextExtract == ExtractWithSpan \/ ExtractWithParagraph

SpecExtract == InitExtract /\ [][NextExtract]_vars

\* The w:del and w:ins elements anywhere under a node.
RevisionSpans(node) ==
    getElementsByTagName(node, "w:del") \o getElementsByTagName(node, "w:ins")

\* C13 (under SpecExtract): has_revisions is true exactly when a w:del or a
\* w:ins exists anywhere under the cell, at any depth.
C13_HasRevisionsAnyDepth ==
    phase = "cell" => (states.has_revisions <=> RevisionSpans(TheCell) # <<>>)

\* A step of SpecExtract in which the last paragraph of the cell got the
\* child span.
SpanAdded(span) == doc' = OneCellDoc(WithSpan(TheCell, span))

\* C14 (under SpecExtract): a w:r that is added after the spans of a cell
\* adds its text at the end of before_text and of after_text, a w:del at
\* the end of before_text only, a w:ins at the end of after_text only.
C14_SpansInOrder ==
    [][\A span \in SpanShapes :
          SpanAdded(span) =>
             LET text == _extract_text_from_node(span) IN
             /\ span.tag = "w:r" =>
                   /\ states'.before_text = states.before_text \o text
                   /\ states'.after_text = states.after_text \o text
             /\ span.tag = "w:del" =>
                   /\ states'.before_text = states.before_text \o text
                   /\ states'.after_text = states.after_text
             /\ span.tag = "w:ins" =>
                   /\ states'.before_text = states.before_text
                   /\ states'.after_text = states.after_text \o text]_vars

\* C14 witness: the second paragraph of a cell holds a w:del after a w:r
\* of the first, and the two texts differ by the deleted text.
C14_Witness ==
    /\ phase = "cell"
    /\ Len(TheCell.kids) = 2
    /\ SpansOf(TheCell) = <<Run(<<"a">>), DelSpan(1, <<"b">>)>>
    /\ states.before_text = <<"a", "\n", "b">>
    /\ states.after_text = <<"a", "\n">>
    /\ states.has_revisions

\* C15 (under SpecExtract): a cell without any w:del or w:ins has
\* has_revisions false, and its before_text and after_text both equal the
\* text that _extract_all_text_from_cell returns for it.
C15_NoSpansSameAsCleanText ==
    (phase = "cell" /\ RevisionSpans(TheCell) = <<>>) =>
       /\ ~states.has_revisions
       /\ states.before_text = plain_text
       /\ states.after_text = plain_text

\* A w:del or w:ins of the cell that holds another w:del or w:ins.
NestedSpans(cell) ==
    SelectSeq(RevisionSpans(cell), LAMBDA n : RevisionSpans(n) # <<>>)

\* C16 (under SpecExtract): for a cell in which a w:del or w:ins holds
\* another one, extraction ends with a MalformedMarkup error: what it
\* leaves holds no before_text and no after_text.
C16_MalformedMarkupFails ==
    (phase = "cell" /\ NestedSpans(TheCell) # <<>>) =>
       /\ "before_text" \notin DOMAIN states
       /\ "after_text" \notin DOMAIN states

RECURSIVE JoinLines(_)
\* The texts joined with one line break between consecutive ones.
JoinLines(texts) ==
    IF Len(texts) <= 1 THEN Concat(texts)
    ELSE Head(texts) \o <<"\n">> \o JoinLines(Tail(texts))

\* C24 (under SpecExtract): for a cell of n >= 1 paragraphs, before_text
\* and after_text are the texts of the paragraphs with one line break
\* between consecutive paragraphs and none before the first or after the
\* last: each holds n - 1 separators.
C24_SeparatorsBetweenParagraphs ==
    phase = "cell" =>
        LET paragraphs == getElementsByTagName(TheCell, "w:p")
            n == Len(paragraphs)
            breaks(text) == Len(SelectSeqOf(text, {"\n"}))
        IN n >= 1 =>
           /\ states.before_text =
                 JoinLines([i \in 1..n |->
                    ChildTexts(paragraphs[i], {"w:r", "w:del"})])
           /\ states.after_text =
                 JoinLines([i \in 1..n |->
                    ChildTexts(paragraphs[i], {"w:r", "w:ins"})])
           /\ breaks(states.before_text) = n - 1
           /\ breaks(states.after_text) = n - 1

\* C24 witness: a cell of two paragraphs, a deletion in the first and a run
\* in the second; the after_text starts with the separator.
C24_Witness ==
    /\ phase = "cell"
    /\ Len(getElementsByTagName(TheCell, "w:p")) = 2
    /\ states.before_text = <<"a", "\n", "b">>
    /\ states.after_text = <<"\n", "b">>

-----------------------------------------------------------------------------
(* SpecDiff: the text functions on every pair of texts up to MaxLen.        *)
(* SpecMarkup: the same on texts that may hold a carriage return.           *)

\* The two arguments of word_diff are drawn from texts.
InitTexts(texts) ==
    /\ JIEBA_AVAILABLE \in BOOLEAN
    /\ jieba_cuts \in SUBSET (1..(MaxLen - 1))
    /\ (~JIEBA_AVAILABLE => jieba_cuts = {})
    /\ current_text \in texts
    /\ target_after \in texts
    /\ token_lists = <<>>
    /\ operations = <<>>
    /\ states = NoStates
    /\ phase = "input"
    /\ plain_text = <<>>
    /\ escaped = <<>>
    /\ applier_author = DefaultAuthor
    /\ doc = Body(<<>>)
    /\ next_revision_id = 0
    /\ w16du_declared = TRUE
    /\ loaded_ids = {}
    /\ issued = <<>>
    /\ calls = 0
    /\ last = NoCall
    /\ pc = "idle"
    /\ mapped_results = <<>>
    /\ pass_column = 1
    /\ handled = 0
    /\ success_count = 0
    /\ attempts = <<>>
    /\ returned = 0
    /\ prev_pass = [results |-> <<>>, column |-> 1, passes |-> 0,
                    doc |-> doc]
    /\ pass_start = doc
    /\ MapperIdle

\* word_diff(current_text, target_after)
WordDiff ==
    /\ phase = "input"
    /\ token_lists' = <<tokenize(current_text), tokenize(target_after)>>
    /\ operations' = word_diff(current_text, target_after)
    /\ phase' = "diffed"
    /\ UNCHANGED <<mapvars, JIEBA_AVAILABLE, jieba_cuts, current_text, target_after,
                   states, plain_text, escaped, appvars>>

\* A cell whose one paragraph holds the elements parsed from the fragment.
CellOf(parts) ==
    Elem("w:tc", NoId, "",
         <<Elem("w:p", NoId, "",
                [i \in 1..Len(parts) |-> parse_node(parts[i])])>>)

\* _build_diff_xml on the op list, and extraction of the cell built from it
ExtractBuilt ==
    /\ phase = "diffed"
    /\ states' = _extract_text_versions_from_cell(
                    CellOf(_build_diff_xml(operations, 0).parts))
    /\ phase' = "extracted"
    /\ UNCHANGED <<mapvars, JIEBA_AVAILABLE, jieba_cuts, current_text, target_after,
                   token_lists, operations, plain_text, escaped, appvars>>

NextDiff == WordDiff \/ ExtractBuilt

InitDiff == InitTexts(TextsUpTo(MaxLen))

SpecDiff == InitDiff /\ [][NextDiff]_vars

InitMarkup == InitTexts(TextsOver(MarkupChars, MaxLen))

SpecMarkup == InitMarkup /\ [][NextDiff]_vars

-----------------------------------------------------------------------------
(* Claims about the text functions (under SpecDiff) *)

\* C4: the op list of word_diff reconstructs both texts: the 'equal' and
\* 'delete' texts joined give current_text, the 'equal' and 'insert' texts
\* joined give target_after.
C4_DiffReconstructs ==
    phase # "input" =>
        /\ TextOf(operations, {"equal", "delete"}) = current_text
        /\ TextOf(operations, {"equal", "insert"}) = target_after

\* C4 witness: two texts tokenized in different modes, with an op of each
\* kind in their diff.
C4_Witness ==
    /\ phase = "diffed"
    /\ detect_language(current_text) # detect_language(target_after)
    /\ \A k \in {"equal", "delete", "insert"} :
          \E i \in 1..Len(operations) : operations[i].op = k

\* C5: tokenize returns non-empty tokens whose concatenation is the input,
\* in every mode; the empty text gives no token.
C5_TokenizeLossless ==
    phase # "input" =>
        /\ Concat(token_lists[1]) = current_text
        /\ Concat(token_lists[2]) = target_after
        /\ \A n \in 1..2 : \A i \in 1..Len(token_lists[n]) : token_lists[n][i] # <<>>
        /\ (current_text = <<>> => token_lists[1] = <<>>)

\* C5 witness: a text in delimiter mode with a whitespace token kept, and a
\* text in dense-script mode that the segmenter cut into several tokens.
C5_Witness ==
    /\ phase = "diffed"
    /\ detect_language(current_text) = "en"
    /\ \E i \in 1..Len(token_lists[1]) : token_lists[1][i] = <<" ">>
    /\ Len(token_lists[1]) > 1
    /\ detect_language(target_after) = "zh"
    /\ JIEBA_AVAILABLE
    /\ Len(token_lists[2]) > 1

\* The text leaves (w:t, w:delText) of the parts of a fragment, in order.
LeavesOf(parts) ==
    Concat([i \in 1..Len(parts) |->
              getElementsByTagName(parts[i], "w:t")
              \o getElementsByTagName(parts[i], "w:delText")])

\* The leaves _build_diff_xml writes for the op list of the diff.
BuiltLeaves == LeavesOf(_build_diff_xml(operations, 0).parts)

\* The ops _build_diff_xml does not skip.
KeptOps == SelectSeq(operations, LAMBDA o : o.text # <<>>)

\* C18: every text leaf _build_diff_xml writes whose content starts or ends
\* with a space has xml:space="preserve"; an op whose text is one space is
\* written, as a leaf holding that space and carrying the marker.
C18_SpacesPreserved ==
    phase # "input" =>
        LET leaves == BuiltLeaves
            kept == KeptOps
        IN /\ \A i \in 1..Len(leaves) :
                 LET content == parse_chardata(leaves[i].text) IN
                 (content[1] = " " \/ content[Len(content)] = " ")
                    => leaves[i].preserve
           /\ Len(leaves) = Len(kept)
           /\ \A i \in 1..Len(kept) :
                 kept[i].text = <<" ">> =>
                    /\ parse_chardata(leaves[i].text) = <<" ">>
                    /\ leaves[i].preserve

\* C18 witness: the diff has an op that is one space and an op whose text
\* only ends with a space, and a leaf without the marker.
C18_Witness ==
    /\ phase = "diffed"
    /\ \E i \in 1..Len(operations) : operations[i].text = <<" ">>
    /\ \E i \in 1..Len(operations) :
          /\ Len(operations[i].text) > 1
          /\ operations[i].text[1] # " "
          /\ operations[i].text[Len(operations[i].text)] = " "
    /\ \E i \in 1..Len(BuiltLeaves) : ~BuiltLeaves[i].preserve

\* The opcodes of the sequence matcher for the two token lists.
Opcodes == get_opcodes(token_lists[1], token_lists[2])

\* The place in the op list of the first op written for opcode k of codes.
OpIndex(codes, k) ==
    k + Cardinality({m \in 1..(k - 1) : codes[m][1] = "replace"})

\* C20: the op list of word_diff holds only 'equal', 'delete' and 'insert'
\* ops; each opcode gives one op of its own kind, except 'replace', which
\* gives one 'delete' op with the replaced tokens of the current text
\* immediately followed by one 'insert' op with the replacing tokens of
\* the target text.
C20_ReplaceExpanded ==
    phase # "input" =>
        LET codes == Opcodes IN
        /\ \A i \in 1..Len(operations) :
              operations[i].op \in {"equal", "delete", "insert"}
        /\ Len(operations) = OpIndex(codes, Len(codes) + 1) - 1
        /\ \A k \in 1..Len(codes) :
              LET c == codes[k]
                  at == OpIndex(codes, k)
                  cur == Concat(Slice(token_lists[1], c[2], c[3]))
                  tgt == Concat(Slice(token_lists[2], c[4], c[5]))
              IN IF c[1] = "replace"
                 THEN /\ operations[at] = Op("delete", cur)
                      /\ operations[at + 1] = Op("insert", tgt)
                 ELSE /\ operations[at].op = c[1]
                      /\ operations[at].text =
                            IF c[1] = "insert" THEN tgt ELSE cur

\* C20 witness: the matcher gave a 'replace' opcode next to an 'equal' one.
C20_Witness ==
    /\ phase = "diffed"
    /\ \E k \in 1..Len(Opcodes) : Opcodes[k][1] = "replace"
    /\ \E k \in 1..Len(Opcodes) : Opcodes[k][1] = "equal"
    /\ Len(operations) = Len(Opcodes) + 1

\* C22: word_diff of a text with itself gives one op, an 'equal' op with
\* the whole text, for every text, the empty one included.
C22_SameTextOneEqual ==
    (phase # "input" /\ current_text = target_after) =>
        operations = <<Op("equal", current_text)>>

\* C6 (under SpecMarkup): extracting the text states of a cell whose
\* paragraph holds the fragment built from word_diff(before, after) gives
\* back (before, after).
C6_RoundTrip ==
    phase = "extracted" =>
        /\ states.before_text = current_text
        /\ states.after_text = target_after

-----------------------------------------------------------------------------
(* SpecEscape: _build_diff_xml on one op, for every text over the XML      *)
(* metacharacters and the characters of an entity name.                    *)

MaxEscapeLen == 4

EscapeChars == {"&", "<", ">", "\"", "'", "l", "t", ";"}

InitEscape ==
    /\ JIEBA_AVAILABLE = FALSE
    /\ jieba_cuts = {}
    /\ current_text \in TextsOver(EscapeChars, MaxEscapeLen)
    /\ target_after = <<>>
    /\ token_lists = <<>>
    /\ operations = <<>>
    /\ states = NoStates
    /\ phase = "input"
    /\ plain_text = <<>>
    /\ escaped = <<>>
    /\ applier_author = DefaultAuthor
    /\ doc = Body(<<>>)
    /\ next_revision_id = 0
    /\ w16du_declared = TRUE
    /\ loaded_ids = {}
    /\ issued = <<>>
    /\ calls = 0
    /\ last = NoCall
    /\ pc = "idle"
    /\ mapped_results = <<>>
    /\ pass_column = 1
    /\ handled = 0
    /\ success_count = 0
    /\ attempts = <<>>
    /\ returned = 0
    /\ prev_pass = [results |-> <<>>, column |-> 1, passes |-> 0,
                    doc |-> doc]
    /\ pass_start = doc
    /\ MapperIdle

\* _build_diff_xml([(op, current_text)]): escaped is the markup text of the
\* leaves it writes.
BuildOne ==
    /\ phase = "input"
    /\ \E op \in {"equal", "delete", "insert"} :
          /\ operations' = <<Op(op, current_text)>>
          /\ escaped' = LeafTexts(LeavesOf(
                           _build_diff_xml(operations', 0).parts))
    /\ phase' = "built"
    /\ UNCHANGED <<mapvars, JIEBA_AVAILABLE, jieba_cuts, current_text, target_after,
                   token_lists, states, plain_text, appvars>>

NextEscape == BuildOne

SpecEscape == InitEscape /\ [][NextEscape]_vars

\* The entity written for a metacharacter; any other character as it is.
EntityOf(char) ==
    CASE char = "&" -> amp
      [] char = "<" -> lt
      [] char = ">" -> gt
      [] char = "\"" -> quot
      [] char = "'" -> apos
      [] OTHER -> <<char>>

\* C19 (under SpecEscape): the text of the leaf written for an op is the
\* op's text with each of & < > " ' replaced by its entity and every other
\* character kept, the "&" of an entity written for another character not
\* escaped again; unescaping it once gives the op's text.
C19_EscapedOnce ==
    phase = "built" =>
        /\ escaped = Concat([i \in 1..Len(current_text) |->
                               EntityOf(current_text[i])])
        /\ parse_chardata(escaped) = current_text

\* C19 witness: the text "&lt;" was written in a w:delText as "&amp;lt;".
C19_Witness ==
    /\ phase = "built"
    /\ operations = <<Op("delete", <<"&", "l", "t", ";">>)>>
    /\ escaped = <<"&", "a", "m", "p", ";", "l", "t", ";">>

-----------------------------------------------------------------------------
(* SpecDemo: the text functions on the sentences of the demonstration at   *)
(* the end of applier.py, "AI <verb> <verb> our life.".                    *)

\* The verbs of the two sentences of the demonstration.
DemoWords == {<<"i", "s">>, <<"h", "a", "s">>,
              <<"c", "h", "a", "n", "g", "i", "n", "g">>,
              <<"c", "h", "a", "n", "g", "e", "d">>}

Sentence(first, second) ==
    <<"A", "I", " ">> \o first \o <<" ">> \o second
    \o <<" ", "o", "u", "r", " ", "l", "i", "f", "e", ".">>

current_en == Sentence(<<"i", "s">>,
                       <<"c", "h", "a", "n", "g", "i", "n", "g">>)
target_en == Sentence(<<"h", "a", "s">>,
                      <<"c", "h", "a", "n", "g", "e", "d">>)

InitDemo ==
    InitTexts({Sentence(first, second) : first, second \in DemoWords})

SpecDemo == InitDemo /\ [][NextDiff]_vars

\* C21 (under SpecDemo): for "AI is changing our life." and "AI has changed
\* our life." word_diff gives exactly one 'delete' op and one 'insert' op,
\* and the fragment built from them holds exactly one w:del and one w:ins,
\* with different ids.
C21_DemoOneDeleteOneInsert ==
    (phase # "input" /\ current_text = current_en
       /\ target_after = target_en) =>
        LET parts == _build_diff_xml(operations, 0).parts
            dels == SelectSeq(parts, LAMBDA n : n.tag = "w:del")
            inss == SelectSeq(parts, LAMBDA n : n.tag = "w:ins")
        IN /\ Len(SelectSeq(operations, LAMBDA o : o.op = "delete")) = 1
           /\ Len(SelectSeq(operations, LAMBDA o : o.op = "insert")) = 1
           /\ Len(dels) = 1
           /\ Len(inss) = 1
           /\ dels[1].id # inss[1].id

-----------------------------------------------------------------------------
(* SpecBuild: _build_diff_xml on every short op list, empty texts included *)

MaxOps == 4

\* The op lists given to _build_diff_xml.
OpLists ==
    UNION {[1..k -> {Op(op, text) : op \in {"equal", "delete", "insert"},
                                    text \in {<<>>, <<"a">>}}] :
           k \in 0..MaxOps}

InitBuild ==
    /\ JIEBA_AVAILABLE = FALSE
    /\ jieba_cuts = {}
    /\ current_text = <<>>
    /\ target_after = <<>>
    /\ token_lists = <<>>
    /\ operations \in OpLists
    /\ states = NoStates
    /\ phase = "ops"
    /\ plain_text = <<>>
    /\ escaped = <<>>
    /\ applier_author = DefaultAuthor
    /\ doc = Body(<<>>)
    /\ next_revision_id \in {0, 7}
    /\ w16du_declared = TRUE
    /\ loaded_ids = {}
    /\ issued = <<>>
    /\ calls = 0
    /\ last = NoCall
    /\ pc = "idle"
    /\ mapped_results = <<>>
    /\ pass_column = 1
    /\ handled = 0
    /\ success_count = 0
    /\ attempts = <<>>
    /\ returned = 0
    /\ prev_pass = [results |-> <<>>, column |-> 1, passes |-> 0,
                    doc |-> doc]
    /\ pass_start = doc
    /\ MapperIdle

\* _build_diff_xml(operations, date): doc is the cell holding the fragment.
BuildAll ==
    /\ phase = "ops"
    /\ LET built == _build_diff_xml(operations, next_revision_id) IN
       /\ doc' = CellOf(built.parts)
       /\ next_revision_id' = built.next_revision_id
       /\ issued' = Concat([i \in 1..Len(built.parts) |->
                              IdSeq(built.parts[i])])
    /\ phase' = "built"
    /\ UNCHANGED <<mapvars, JIEBA_AVAILABLE, jieba_cuts, current_text, target_after,
                   token_lists, operations, states, plain_text, escaped,
                   applier_author, w16du_declared, loaded_ids, calls, last,
                   pc, mapped_results, pass_column, handled, success_count,
                   attempts, returned, prev_pass, pass_start>>

SpecBuild == InitBuild /\ [][BuildAll]_vars

\* C23 (under SpecBuild): the fragment holds one node per op with a
\* non-empty text, in the order of the ops: a w:r for 'equal', a w:del for
\* 'delete', a w:ins for 'insert'.  The k-th w:del or w:ins carries the id
\* next_revision_id + k - 1 and a w:r carries none, and the call advances
\* next_revision_id by the number of w:del and w:ins.
C23_OneNodeOneIdPerOp ==
    [][(phase = "ops" /\ phase' = "built") =>
          LET kept == KeptOps
              nodes == doc'.kids[1].kids
              spans(i) == Cardinality({j \in 1..i : kept[j].op # "equal"})
              tag(op) == CASE op = "equal" -> "w:r"
                           [] op = "delete" -> "w:del"
                           [] op = "insert" -> "w:ins"
          IN /\ Len(nodes) = Len(kept)
             /\ \A i \in 1..Len(kept) :
                   /\ nodes[i].tag = tag(kept[i].op)
                   /\ _extract_text_from_node(nodes[i]) = kept[i].text
                   /\ nodes[i].id = IF kept[i].op = "equal" THEN NoId
                                    ELSE next_revision_id + spans(i) - 1
             /\ next_revision_id' = next_revision_id + spans(Len(kept))]_vars

\* C23 witness: a call on four ops, one of them with an empty text, wrote a
\* w:r, a w:del and a w:ins with the ids 7 and 8.
C23_Witness ==
    /\ phase = "built"
    /\ Len(operations) = 4
    /\ Len(KeptOps) = 3
    /\ \A op \in {"equal", "delete", "insert"} :
          \E i \in 1..3 : KeptOps[i].op = op
    /\ issued = <<7, 8>>
    /\ next_revision_id = 9

-----------------------------------------------------------------------------
(* mapper.py: RevisionMapper.map_row_pairs.  A row is [row_index,          *)
(* target_current, text_len], text_len being the length of the longest of  *)
(* its three texts.  The response of the LLM is modelled by the list of    *)
(* objects the parser finds in it (each with "row_index" and               *)
(* "target_after") and by its stop_reason.                                 *)

\* Most rows of an input, and the row_index values the LLM may name.
MaxRows == 2

\* Most objects in one response.
MaxObjects == 2

\* The row with that row_index: every second row has long texts.
RowPair(i) ==
    [row_index |-> i, target_current |-> <<"current", i>>,
     text_len |-> IF i % 2 = 1 THEN 1000 ELSE 0]

RECURSIVE Perms(_)
\* The lists that hold each member of S once.
Perms(S) ==
    IF S = {} THEN {<<>>}
    ELSE UNION {{<<RowPair(i)>> \o rest : rest \in Perms(S \ {i})} : i \in S}

\* The arguments of map_row_pairs: the rows 0..n-1 in any order.
RowLists == UNION {Perms(0..(n - 1)) : n \in 0..MaxRows}

\* An object of a response, before target_current is set by the mapper.
Item(i) == [row_index |-> i, target_current |-> <<"LLM">>]

\* What the parser may find in a response.
ParsedLists == UNION {[1..k -> {Item(i) : i \in 0..MaxRows}] : k \in 0..MaxObjects}

StopReasons == {"end_turn", "max_tokens", "length"}

\* int(self.max_output_tokens * self.output_safety_ratio), the ratio 0.7
InitialLimit(max_output_tokens) == (max_output_tokens * 7) \div 10

\* max(200, int(batch_output_limit * self.retry_shrink_ratio)), the ratio 0.6
ShrunkLimit(limit) ==
    IF (limit * 6) \div 10 > 200 THEN (limit * 6) \div 10 ELSE 200

\* int(self.row_base_tokens + self.row_per_char * text_len): 80 + 0.2 * len
_estimate_row_output_tokens(row) == 80 + (2 * row.text_len) \div 10

RECURSIVE _build_batches_from(_, _, _, _)
\* The loop of _build_batches, current and used being its two variables.
_build_batches_from(rows, current, used, output_budget) ==
    IF rows = <<>> THEN (IF current # <<>> THEN <<current>> ELSE <<>>)
    ELSE LET row == Head(rows)
             cost == _estimate_row_output_tokens(row)
         IN IF current # <<>> /\ used + cost > output_budget
            THEN <<current>>
                 \o _build_batches_from(Tail(rows), <<row>>, cost,
                                        output_budget)
            ELSE _build_batches_from(Tail(rows), Append(current, row),
                                     used + cost, output_budget)

_build_batches(rows, output_budget) ==
    _build_batches_from(rows, <<>>, 0, output_budget)

\* [row["row_index"] for row in rows]
RowIds(rows) == [k \in 1..Len(rows) |-> rows[k].row_index]

\* target_by_row.get(i, "")
target_by_row(i) ==
    IF \E k \in 1..Len(row_pairs) : row_pairs[k].row_index = i
    THEN RowPair(i).target_current ELSE <<>>

RECURSIVE Collect_keep_target_current(_, _)
\* Faulty variant of Collect: the target_current of the response is kept.
Collect_keep_target_current(results, parsed) ==
    IF parsed = <<>> THEN results
    ELSE LET item == Head(parsed)
         IN Collect_keep_target_current(
               [i \in DOMAIN results \cup {item.row_index} |->
                  IF i = item.row_index THEN item ELSE results[i]],
               Tail(parsed))

RECURSIVE Collect(_, _)
\* for item in parsed: item["target_current"] = target_by_row.get(...);
\*                     results_by_row[item["row_index"]] = item
Collect(results, parsed) ==
    IF parsed = <<>> THEN results
    ELSE LET item == [Head(parsed) EXCEPT
                         !.target_current = target_by_row(Head(parsed).row_index)]
         IN Collect([i \in DOMAIN results \cup {item.row_index} |->
                       IF i = item.row_index THEN item ELSE results[i]],
                    Tail(parsed))

\* Faulty variant of Accepted: a truncated response keeps its last object.
Accepted_keep_last(parsed, stop_reason) == parsed

\* parsed after "if stop_reason in ('max_tokens', 'length') and parsed:
\* parsed.pop()"
Accepted(parsed, stop_reason) ==
    IF stop_reason \in {"max_tokens", "length"} /\ parsed # <<>>
    THEN SubSeq(parsed, 1, Len(parsed) - 1) ELSE parsed

\* The call sent these rows: one more call for each of them.
Sent(rows) ==
    [i \in DOMAIN sends |-> IF i \in Range(RowIds(rows)) THEN sends[i] + 1
                            ELSE sends[i]]

\* What a step of map_row_pairs leaves alone.
MapFrame ==
    UNCHANGED <<JIEBA_AVAILABLE, jieba_cuts, diffvars, appvars, strategy,
                max_retries, row_pairs>>

\* map_row_pairs(row_pairs) is entered with one of the lists, the mapper
\* having one of the strategies, max_retries one of retries and
\* max_output_tokens 200 or 4096 (the default).
InitMapper(strategies, retries, lists) ==
    /\ JIEBA_AVAILABLE = FALSE
    /\ jieba_cuts = {}
    /\ current_text = <<>>
    /\ target_after = <<>>
    /\ token_lists = <<>>
    /\ operations = <<>>
    /\ states = NoStates
    /\ phase = "input"
    /\ plain_text = <<>>
    /\ escaped = <<>>
    /\ applier_author = DefaultAuthor
    /\ doc = Body(<<>>)
    /\ next_revision_id = 0
    /\ w16du_declared = TRUE
    /\ loaded_ids = {}
    /\ issued = <<>>
    /\ calls = 0
    /\ last = NoCall
    /\ pc = "idle"
    /\ mapped_results = <<>>
    /\ pass_column = 1
    /\ handled = 0
    /\ success_count = 0
    /\ attempts = <<>>
    /\ returned = 0
    /\ prev_pass = [results |-> <<>>, column |-> 1, passes |-> 0,
                    doc |-> doc]
    /\ pass_start = doc
    /\ strategy \in strategies
    /\ max_retries \in retries
    /\ row_pairs \in lists
    /\ pending_rows = row_pairs
    /\ results_by_row = <<>>
    /\ batch_output_limit \in {InitialLimit(m) : m \in {200, 4096}}
    /\ (strategy = "max_tokens" => batch_output_limit = InitialLimit(4096))
    /\ attempt = 0
    /\ batches = <<>>
    /\ failed_rows = <<>>
    /\ map_pc = "attempt"
    /\ output = <<>>
    /\ dropped = <<>>
    /\ sends = [i \in 0..(Len(row_pairs) - 1) |-> 0]
    /\ done_before = {}

\* _map_max_tokens_strategy: one turn of the loop, the response of the LLM
\* holding the objects parsed and ending with stop_reason.
MaxTokensCall(parsed, stop_reason) ==
    /\ map_pc = "attempt"
    /\ strategy = "max_tokens"
    /\ attempt <= max_retries
    /\ pending_rows # <<>>
    /\ LET accepted == Accepted(parsed, stop_reason)
           results == Collect(results_by_row, accepted)
       IN /\ results_by_row' = results
          /\ pending_rows' =
                SelectSeq(pending_rows,
                          LAMBDA row : row.row_index \notin DOMAIN results)
          /\ dropped' = SubSeq(parsed, Len(accepted) + 1, Len(parsed))
    /\ attempt' = attempt + 1
    /\ sends' = Sent(pending_rows)
    /\ done_before' = DOMAIN results_by_row
    /\ UNCHANGED <<batch_output_limit, batches, failed_rows, map_pc, output>>
    /\ MapFrame

\* _map_batch_strategy: the top of a turn of the loop, up to _build_batches
AttemptStart ==
    /\ map_pc = "attempt"
    /\ strategy = "batch"
    /\ attempt <= max_retries
    /\ pending_rows # <<>>
    /\ batches' = _build_batches(pending_rows, batch_output_limit)
    /\ failed_rows' = <<>>
    /\ done_before' = DOMAIN results_by_row
    /\ map_pc' = "batch"
    /\ UNCHANGED <<pending_rows, results_by_row, batch_output_limit, attempt,
                   output, dropped, sends>>
    /\ MapFrame

\* _map_batch_strategy: one turn of the loop over the batches, with
\* _map_single_batch on the batch; after the last batch, the end of the
\* attempt.
BatchCall(parsed, stop_reason) ==
    /\ map_pc = "batch"
    /\ LET batch == Head(batches)
           accepted == Accepted(parsed, stop_reason)
           failed_ids ==
              (Range(RowIds(batch)) \ Range(RowIds(parsed)))
              \cup (IF accepted # parsed
                    THEN {parsed[Len(parsed)].row_index} ELSE {})
           failed == failed_rows
                     \o SelectSeq(batch,
                                  LAMBDA row : row.row_index \in failed_ids)
       IN /\ results_by_row' = Collect(results_by_row, accepted)
          /\ dropped' = SubSeq(parsed, Len(accepted) + 1, Len(parsed))
          /\ sends' = Sent(batch)
          /\ batches' = Tail(batches)
          /\ IF Tail(batches) # <<>>
             THEN /\ failed_rows' = failed
                  /\ UNCHANGED <<pending_rows, batch_output_limit, attempt,
                                 map_pc>>
             ELSE /\ pending_rows' = failed
                  /\ failed_rows' = <<>>
                  /\ batch_output_limit' = ShrunkLimit(batch_output_limit)
                  /\ attempt' = attempt + 1
                  /\ map_pc' = "attempt"
    /\ UNCHANGED <<output, done_before>>
    /\ MapFrame

\* The end of either strategy: the results in the order of row_pairs.
MapReturn ==
    /\ map_pc = "attempt"
    /\ attempt > max_retries \/ pending_rows = <<>>
    /\ output' =
          LET done == SelectSeq(row_pairs,
                        LAMBDA pair : pair.row_index \in DOMAIN results_by_row)
          IN [k \in 1..Len(done) |-> results_by_row[done[k].row_index]]
    /\ map_pc' = "done"
    /\ UNCHANGED <<pending_rows, results_by_row, batch_output_limit, attempt,
                   batches, failed_rows, dropped, sends, done_before>>
    /\ MapFrame

NextMap ==
    \/ \E parsed \in ParsedLists, stop_reason \in StopReasons :
          \/ MaxTokensCall(parsed, stop_reason)
          \/ BatchCall(parsed, stop_reason)
    \/ AttemptStart
    \/ MapReturn

\* Either strategy, the default max_retries, the rows in any order.
SpecMap == InitMapper({"max_tokens", "batch"}, {2}, RowLists) /\ [][NextMap]_vars

\* A call of the max_tokens strategy whose response brings at least one
\* accepted object for a row that is pending.
ProgressCall(parsed, stop_reason) ==
    /\ \E k \in 1..Len(Accepted(parsed, stop_reason)) :
          parsed[k].row_index \in Range(RowIds(pending_rows))
    /\ MaxTokensCall(parsed, stop_reason)

NextProgress ==
    \/ \E parsed \in ParsedLists, stop_reason \in StopReasons :
          ProgressCall(parsed, stop_reason)
    \/ MapReturn

\* The max_tokens strategy with an LLM that makes progress in every call,
\* on the rows 0..n-1 in order, up to one row more than max_retries allows
\* attempts.
SpecMapProgress ==
    InitMapper({"max_tokens"}, {1, 2},
               {[k \in 1..n |-> RowPair(k - 1)] : n \in 0..(MaxRows + 1)})
       /\ [][NextProgress]_vars

-----------------------------------------------------------------------------
(* Claims about map_row_pairs (under SpecMap and SpecMapProgress) *)

\* C27: what map_row_pairs returns holds the results of input rows only,
\* at most one for a row, in the order of the rows in row_pairs, each with
\* the target_current of its input row, whatever the LLM answered.
C27_OutputInInputOrder ==
    map_pc = "done" =>
       LET ids == RowIds(output)
       IN /\ ids = SelectSeq(RowIds(row_pairs), LAMBDA i : i \in Range(ids))
          /\ \A k \in 1..Len(output) :
                \E j \in 1..Len(row_pairs) :
                   /\ row_pairs[j].row_index = ids[k]
                   /\ output[k].target_current = row_pairs[j].target_current

\* C27 witness: the rows came as 1, 0, the LLM also answered for a row
\* that is not in the input, and both rows are returned.
C27_Witness ==
    /\ map_pc = "done"
    /\ RowIds(row_pairs) = <<1, 0>>
    /\ Len(output) = 2
    /\ MaxRows \in DOMAIN results_by_row

C29_BoundedAttemptsNoResend ==
    [][/\ attempt' <= max_retries + 1
       /\ \A i \in DOMAIN sends : sends'[i] <= max_retries + 1
       /\ strategy = "max_tokens"
             => \A i \in DOMAIN sends : sends'[i] <= attempt'
       /\ \A i \in DOMAIN sends :
             sends'[i] # sends[i] => i \notin done_before'
       /\ map_pc' = "done"
             => Range(RowIds(output')) =
                   Range(RowIds(row_pairs)) \cap DOMAIN results_by_row]_vars

\* C30 as stated: the batches of an attempt are non-empty and hold the
\* pending rows in order, a batch of more than one row costs at most the
\* budget, a row that costs more than the budget is alone in its batch,
\* and the budget of the next attempt is at least 200 and not above the
\* budget of this attempt.
C30_BatchesPartitionBudgetShrinks ==
    [][/\ (map_pc = "attempt" /\ map_pc' = "batch") =>
             /\ Concat(batches') = pending_rows
             /\ \A b \in 1..Len(batches') :
                   LET batch == batches'[b]
                       cost(k) == _estimate_row_output_tokens(batch[k])
                   IN /\ batch # <<>>
                      /\ Len(batch) = 2
                            => cost(1) + cost(2) <= batch_output_limit
                      /\ Len(batch) <= MaxRows
                      /\ \A k \in 1..Len(batch) :
                            cost(k) > batch_output_limit => Len(batch) = 1
       /\ batch_output_limit' # batch_output_limit =>
             /\ batch_output_limit' >= 200
             /\ batch_output_limit' <= batch_output_limit]_vars

\* C26 as stated: with an LLM of which every call brings at least one new
\* accepted result, the max_tokens strategy returns a result for every
\* input row.
C26_EveryRowGetsResult ==
    map_pc = "done" => Len(output) = Len(row_pairs)

=============================================================================
